---------------------------- MODULE Spec2Model ----------------------------
(***************************************************************************)
(* Ephemeral file-sharing server (server.js): a JSON record store keyed by *)
(* a random id, a directory of uploaded files, the upload / meta /         *)
(* download / health handlers and the periodic cleanup job.                *)
(*                                                                         *)
(* Node runs every handler to completion between its awaits, so each       *)
(* synchronous stretch of code is one action.  An upload is three          *)
(* stretches: multer stores the file, the handler saves the record, and    *)
(* the response is sent after the awaited QR rendering.                    *)
(*                                                                         *)
(* Time is counted in clock units; FIXED_TTL stands for the 10 minutes of  *)
(* the source.  Date.now() is a separate read at every call site, so the   *)
(* clock may advance between two reads inside one handler.                 *)
(***************************************************************************)
EXTENDS Integers, Sequences, FiniteSets, TLC

\* ------------------------------------------------------------------ bounds
MaxTime == 2
MaxUploads == 2
MaxDrift == 1

\* `10 * 60 * 1000` ms, in clock units
FIXED_TTL == 1

\* ------------------------------------------------------------- input sets
\* values crypto.randomBytes(6).toString('hex') can return
Ids == {"0a1b2c3d4e5f", "f5e4d3c2b1a0"}
\* values Math.round(Math.random() * 1e9) can return
Rands == {7, 8}
\* the multipart requests clients send to POST /upload: the file part
\* (file.originalname and the bytes of the file) and the password field
UploadRequests ==
  { [originalname |-> "a.txt", bytes |-> "bytes1", body |-> [password |-> ""]],
    [originalname |-> "b.txt", bytes |-> "bytes2", body |-> [password |-> "abc"]] }
\* plaintext passwords a request may carry
Passwords == {"", "abc", "abcd"}
\* req.body: with or without a password field
NoBody == [nofield |-> TRUE]
Bodies == {NoBody} \cup {[password |-> p] : p \in Passwords}

UPLOAD_DIR == "uploads"
Null == "null"
\* a files.json that JSON.parse rejects
Corrupt == <<[corrupt |-> TRUE]>>

VARIABLES
  now,        \* the value Date.now() returns
  DB,         \* files.json: the records in key order, or Corrupt
  disk,       \* the upload directory: path -> bytes
  uploads,    \* the upload requests in flight, each with its stage
  nreq,       \* number of upload requests received
  last,       \* what the server did last: the response it sent, or a cleanup run
  issued,     \* what the successful upload responses so far have promised
  gone        \* the records deleted so far: id, path, and whether the download
              \* handler (answering 410) or the cleanup job deleted it

vars == <<now, DB, disk, uploads, nreq, last, issued, gone>>

\* ---------------------------------------------------------------- helpers
Min(a, b) == IF a < b THEN a ELSE b

\* path.extname(file.originalname)
extname(name) == IF name \in {"a.txt", "b.txt"} THEN ".txt" ELSE ""

\* `${Date.now()}-${Math.round(Math.random() * 1e9)}${ext}`
StoredName(t, r, name) == <<t, r, extname(name)>>

\* multer's file.path: destination joined with filename
JoinPath(dir, filename) == <<dir, filename>>

\* path.basename
basename(p) == p[2]

\* hashPwd: null for a falsy password, else the SHA-256 hex digest
hashPwd(p) ==
  CASE p = ""     -> Null
    [] p = "abc"  -> "ba7816bf8f01cfea414140de5dae2223b00361a396177a9cb410ff61f20015ad"
    [] p = "abcd" -> "88d4266fd4e6338d13b845fcf289579d209c897823b9217da3e161936f031589"

\* req.body.password, undefined (falsy, like '') when the field is missing
BodyPassword(body) == IF "password" \in DOMAIN body THEN body.password ELSE ""

\* ----------------------------------------------------------- record store
\* loadDB that hands the unparsed blob on instead of {}
loadDB_Raw(blob) == blob

\* loadDB: the parsed store, {} when JSON.parse throws
loadDB(blob) == IF blob = Corrupt THEN <<>> ELSE blob

\* Object.keys(DB)
Keys(db) == {db[i].id : i \in 1..Len(db)}

Has(db, id) == id \in Keys(db)

\* DB[id]
Get(db, id) == db[CHOOSE i \in 1..Len(db) : db[i].id = id]

\* DB[id] = rec: an existing key keeps its position, a new key goes last
Put(db, id, rec) ==
  IF Has(db, id)
  THEN [i \in 1..Len(db) |-> IF db[i].id = id THEN rec ELSE db[i]]
  ELSE Append(db, rec)

\* delete DB[id]
Del(db, id) == SelectSeq(db, LAMBDA r : r.id # id)

\* fs.unlinkSync(p) guarded by fs.existsSync(p)
Unlink(d, ps) == [p \in (DOMAIN d) \ ps |-> d[p]]

\* fs write of an uploaded file (an existing file is overwritten)
WriteFile(d, p, bytes) == [q \in (DOMAIN d) \cup {p} |-> IF q = p THEN bytes ELSE d[q]]

\* the sequence s without its k-th element
RemoveAt(s, k) == [i \in 1..(Len(s) - 1) |-> IF i < k THEN s[i] ELSE s[i + 1]]

\* Date.now() > f.expiresAt
Expired(f, t) == t > f.expiresAt

Init ==
  /\ now = 0
  /\ DB = <<>>
  /\ disk = <<>>
  /\ uploads = <<>>
  /\ nreq = 0
  /\ last = [op |-> "none"]
  /\ issued = {}
  /\ gone = {}

\* the clock advances while nothing runs
Tick ==
  /\ now < MaxTime
  /\ now' = now + 1
  /\ UNCHANGED <<DB, disk, uploads, nreq, last, issued, gone>>

\* multer.diskStorage: name the file, write its bytes, hand req.file/req.body on
MulterStore(rq, r) ==
  /\ nreq < MaxUploads
  /\ nreq' = nreq + 1
  /\ LET filename == StoredName(now, r, rq.originalname)
         path == JoinPath(UPLOAD_DIR, filename)
     IN /\ disk' = WriteFile(disk, path, rq.bytes)
        /\ uploads' = Append(uploads,
              [stage |-> "stored", originalname |-> rq.originalname,
               bytes |-> rq.bytes, filename |-> filename, path |-> path,
               body |-> rq.body, id |-> Null, expiresAt |-> -1])
  /\ UNCHANGED <<now, DB, last, issued, gone>>

\* UploadNoFile without the early return: the handler goes on to save a record
UploadNoFile_Saves ==
  /\ last' = [op |-> "upload", status |-> 400]
  /\ DB' = Put(loadDB(DB), "0a1b2c3d4e5f",
               [id |-> "0a1b2c3d4e5f", filename |-> <<now, 7, "">>,
                originalName |-> "", path |-> JoinPath(UPLOAD_DIR, <<now, 7, "">>),
                passwordHash |-> Null, uploadedAt |-> now,
                expiresAt |-> now + FIXED_TTL])
  /\ UNCHANGED <<now, disk, uploads, nreq, issued, gone>>

\* POST /upload without a file part: 400, nothing stored
UploadNoFile ==
  /\ last' = [op |-> "upload", status |-> 400]
  /\ UNCHANGED <<now, DB, disk, uploads, nreq, issued, gone>>

\* the record the upload handler builds; t1 and t2 are its two Date.now() reads
NewRecord(req, id, t1, t2) ==
  [id |-> id,
   filename |-> req.filename,
   originalName |-> req.originalname,
   path |-> req.path,
   passwordHash |-> IF BodyPassword(req.body) # "" THEN hashPwd(BodyPassword(req.body)) ELSE Null,
   uploadedAt |-> t2,
   expiresAt |-> t1 + FIXED_TTL]

\* UploadHandler saving onto a store it read before the latest write, as a
\* handler that yields between loadDB() and saveDB(DB) would
UploadHandler_Stale(k, id, d) ==
  /\ k \in 1..Len(uploads)
  /\ uploads[k].stage = "stored"
  /\ now + d <= MaxTime
  /\ now' = now + d
  /\ DB' = Put(SubSeq(loadDB(DB), 1, Len(loadDB(DB)) - 1), id,
               NewRecord(uploads[k], id, now, now + d))
  /\ uploads' = [uploads EXCEPT ![k].stage = "saved", ![k].id = id,
                                ![k].expiresAt = now + FIXED_TTL]
  /\ UNCHANGED <<disk, nreq, last, issued, gone>>

\* POST /upload, from loadDB() to saveDB(DB)
UploadHandler(k, id, d) ==
  /\ k \in 1..Len(uploads)
  /\ uploads[k].stage = "stored"
  /\ now + d <= MaxTime
  /\ now' = now + d
  /\ DB' = Put(loadDB(DB), id, NewRecord(uploads[k], id, now, now + d))
  /\ uploads' = [uploads EXCEPT ![k].stage = "saved", ![k].id = id,
                                ![k].expiresAt = now + FIXED_TTL]
  /\ UNCHANGED <<disk, nreq, last, issued, gone>>

\* UploadRespond whose catch block rolls the upload back
UploadRespond_Rollback(k, ok) ==
  /\ k \in 1..Len(uploads)
  /\ uploads[k].stage = "saved"
  /\ uploads' = RemoveAt(uploads, k)
  /\ IF ok
     THEN /\ last' = [op |-> "upload", status |-> 200, id |-> uploads[k].id,
                     expiresAt |-> uploads[k].expiresAt]
          /\ issued' = issued \cup {[id |-> uploads[k].id,
                                     originalName |-> uploads[k].originalname,
                                     bytes |-> uploads[k].bytes,
                                     password |-> BodyPassword(uploads[k].body),
                                     expiresAt |-> uploads[k].expiresAt]}
          /\ UNCHANGED <<DB, disk>>
     ELSE /\ last' = [op |-> "upload", status |-> 500]
          /\ DB' = Del(loadDB(DB), uploads[k].id)
          /\ disk' = Unlink(disk, {uploads[k].path})
          /\ UNCHANGED issued
  /\ UNCHANGED <<now, nreq, gone>>

\* POST /upload after `await QRCode.toDataURL(fileUrl)`: the JSON response,
\* or the catch block's 500 when the rendering throws
UploadRespond(k, ok) ==
  /\ k \in 1..Len(uploads)
  /\ uploads[k].stage = "saved"
  /\ uploads' = RemoveAt(uploads, k)
  /\ IF ok
     THEN /\ last' = [op |-> "upload", status |-> 200, id |-> uploads[k].id,
                     expiresAt |-> uploads[k].expiresAt]
          /\ issued' = issued \cup {[id |-> uploads[k].id,
                                     originalName |-> uploads[k].originalname,
                                     bytes |-> uploads[k].bytes,
                                     password |-> BodyPassword(uploads[k].body),
                                     expiresAt |-> uploads[k].expiresAt]}
     ELSE /\ last' = [op |-> "upload", status |-> 500]
          /\ UNCHANGED issued
  /\ UNCHANGED <<now, DB, disk, nreq, gone>>

\* MetaBody that also hands out the digest
MetaBody_Leaky(f) ==
  [id |-> f.id,
   originalName |-> f.originalName,
   expiresAt |-> f.expiresAt,
   passwordHash |-> f.passwordHash,
   passwordProtected |-> (f.passwordHash # Null)]

\* the body of a successful GET /meta/:id
MetaBody(f) ==
  [id |-> f.id,
   originalName |-> f.originalName,
   expiresAt |-> f.expiresAt,
   passwordProtected |-> (f.passwordHash # Null)]

\* the response of GET /meta/:id on store db
MetaResponse(db, id) ==
  IF ~Has(db, id)
  THEN [op |-> "meta", id |-> id, status |-> 404]
  ELSE [op |-> "meta", id |-> id, status |-> 200, body |-> MetaBody(Get(db, id))]

\* GET /meta/:id
Meta(id) ==
  /\ last' = MetaResponse(loadDB(DB), id)
  /\ UNCHANGED <<now, DB, disk, uploads, nreq, issued, gone>>

\* the response of GET /health on store db
HealthResponse(db) ==
  [op |-> "health", status |-> 200, ok |-> TRUE, stored |-> Cardinality(Keys(db))]

\* GET /health
Health ==
  /\ last' = HealthResponse(loadDB(DB))
  /\ UNCHANGED <<now, DB, disk, uploads, nreq, issued, gone>>

\* PasswordOk that lets a request without a password through
PasswordOk_SkipEmpty(f, body) ==
  IF f.passwordHash # Null /\ BodyPassword(body) # ""
  THEN hashPwd(BodyPassword(body)) = f.passwordHash
  ELSE TRUE

\* the password check of POST /download/:id
PasswordOk(f, body) ==
  IF f.passwordHash # Null
  THEN hashPwd(BodyPassword(body)) = f.passwordHash
  ELSE TRUE

\* f.originalName || path.basename(f.path)
SendName(f) == IF f.originalName # "" THEN f.originalName ELSE basename(f.path)

\* DownloadResponse that checks the password before the expiry
DownloadResponse_PasswordFirst(db, d, t, id, body) ==
  IF ~Has(db, id) THEN [op |-> "download", id |-> id, status |-> 404]
  ELSE LET f == Get(db, id) IN
    IF ~PasswordOk(f, body) THEN [op |-> "download", id |-> id, status |-> 401]
    ELSE IF Expired(f, t) THEN [op |-> "download", id |-> id, status |-> 410]
    ELSE IF f.path \notin DOMAIN d THEN [op |-> "download", id |-> id, status |-> 500]
    ELSE [op |-> "download", id |-> id, status |-> 200,
          name |-> SendName(f), bytes |-> d[f.path]]

\* the response of POST /download/:id on store db and directory d at time t
DownloadResponse(db, d, t, id, body) ==
  IF ~Has(db, id) THEN [op |-> "download", id |-> id, status |-> 404]
  ELSE LET f == Get(db, id) IN
    IF Expired(f, t) THEN [op |-> "download", id |-> id, status |-> 410]
    ELSE IF ~PasswordOk(f, body) THEN [op |-> "download", id |-> id, status |-> 401]
    ELSE IF f.path \notin DOMAIN d THEN [op |-> "download", id |-> id, status |-> 500]
    ELSE [op |-> "download", id |-> id, status |-> 200,
          name |-> SendName(f), bytes |-> d[f.path]]

\* DownloadStore of a one-time link: any download of a live record deletes it
DownloadStore_OneShot(db, t, id) ==
  IF Has(db, id) THEN Del(db, id) ELSE db

\* the store after POST /download/:id: an expired record is deleted
DownloadStore(db, t, id) ==
  IF Has(db, id) /\ Expired(Get(db, id), t) THEN Del(db, id) ELSE db

\* the upload directory after POST /download/:id
DownloadDisk(db, d, t, id) ==
  IF Has(db, id) /\ Expired(Get(db, id), t) THEN Unlink(d, {Get(db, id).path}) ELSE d

\* POST /download/:id (saveDB runs only in the expiry branch)
Download(id, body) ==
  LET db == loadDB(DB) IN
  /\ last' = DownloadResponse(db, disk, now, id, body)
  /\ DB' = IF DownloadStore(db, now, id) = db THEN DB ELSE DownloadStore(db, now, id)
  /\ disk' = DownloadDisk(db, disk, now, id)
  /\ gone' = IF last'.status = 410
             THEN gone \cup {[id |-> id, path |-> Get(db, id).path, by |-> "download"]}
             ELSE gone
  /\ UNCHANGED <<now, uploads, nreq, issued>>

\* the clock reads of one cleanup run: one Date.now() per record, in key order
SweepReads(db, t) ==
  {rd \in [1..Len(db) -> t..Min(t + MaxDrift, MaxTime)] :
      \A i, j \in 1..Len(db) : i <= j => rd[i] <= rd[j]}

\* SweepDoomed that spares a record for one more clock unit
SweepDoomed_Late(db, rd) == {i \in 1..Len(db) : rd[i] > db[i].expiresAt + 1}

\* positions of the records a cleanup run deletes
SweepDoomed(db, rd) == {i \in 1..Len(db) : Expired(db[i], rd[i])}

RECURSIVE KeepFrom(_, _, _)
\* the records of db from position i on, without the doomed ones
KeepFrom(db, doomed, i) ==
  IF i > Len(db) THEN <<>>
  ELSE IF i \in doomed THEN KeepFrom(db, doomed, i + 1)
  ELSE <<db[i]>> \o KeepFrom(db, doomed, i + 1)

\* the setInterval cleanup job (saveDB runs only if (changed))
Sweep ==
  LET db == loadDB(DB) IN
  \E rd \in SweepReads(db, now) :
    LET doomed == SweepDoomed(db, rd) IN
    /\ last' = [op |-> "sweep", start |-> now]
    /\ now' = IF Len(db) > 0 THEN rd[Len(db)] ELSE now
    /\ DB' = IF doomed = {} THEN DB ELSE KeepFrom(db, doomed, 1)
    /\ disk' = Unlink(disk, {db[i].path : i \in doomed})
    /\ gone' = gone \cup {[id |-> db[i].id, path |-> db[i].path, by |-> "sweep"] : i \in doomed}
    /\ UNCHANGED <<uploads, nreq, issued>>

\* files.json is left unparsable (a write cut short by a crash or a full
\* disk, an edit from outside)
CorruptStore ==
  /\ DB # Corrupt
  /\ DB' = Corrupt
  /\ UNCHANGED <<now, disk, uploads, nreq, last, issued, gone>>

Next ==
  \/ Tick
  \/ \E rq \in UploadRequests, r \in Rands : MulterStore(rq, r)
  \/ UploadNoFile
  \/ \E k \in 1..MaxUploads, id \in Ids, d \in 0..MaxDrift : UploadHandler(k, id, d)
  \/ \E k \in 1..MaxUploads, ok \in BOOLEAN : UploadRespond(k, ok)
  \/ \E id \in Ids : Meta(id)
  \/ Health
  \/ \E id \in Ids, body \in Bodies : Download(id, body)
  \/ Sweep

Spec == Init /\ [][Next]_vars

\* the server with a store that can be damaged
NextCorrupt == Next \/ CorruptStore
SpecCorrupt == Init /\ [][NextCorrupt]_vars

\* the server with a clock that keeps advancing and a cleanup timer that
\* keeps firing
SpecLive == Init /\ [][Next]_vars /\ WF_vars(Tick) /\ WF_vars(Sweep)

\* ------------------------------------------------------------------ claims
Records == {DB[i] : i \in 1..Len(DB)}

C2_GoneAfter410 ==
  \A g \in gone : g.by = "download" =>
    /\ ~Has(DB, g.id)
    /\ g.path \notin DOMAIN disk
    /\ MetaResponse(DB, g.id).status = 404
    /\ \A body \in Bodies : DownloadResponse(DB, disk, now, g.id, body).status = 404

\* C3: GET /meta/:id answers 404 for an id with no record and for an id whose
\* record has expired, swept or not.
C3_ExpiredMeta404 ==
  \A id \in Ids :
    (~Has(DB, id) \/ Expired(Get(DB, id), now)) => MetaResponse(DB, id).status = 404

\* C4: the successful upload responses carry pairwise different ids, and
\* while every upload has been answered 200 and none of the records has
\* expired GET /health reports as many stored records as there were uploads.
C4_UniqueIds ==
  /\ \A a, b \in issued : a # b => a.id # b.id
  /\ (uploads = <<>> /\ Cardinality(issued) = nreq /\ \A a \in issued : now <= a.expiresAt)
       => HealthResponse(DB).stored = nreq

\* C5 as stated: when a cleanup run has completed, every record in the store
\* has expiresAt strictly greater than the clock value at which the run began.
C5_StrictAfterSweep ==
  last.op = "sweep" => \A f \in Records : f.expiresAt > last.start

\* C5 amended: when a cleanup run has completed, every record in the store
\* has expiresAt greater than or equal to the clock value at which the run
\* began (a record whose expiresAt equals that clock value is kept).
C5_AfterSweep ==
  last.op = "sweep" => \A f \in Records : f.expiresAt >= last.start

\* C5 witness: a cleanup run has completed, it deleted a record, and it kept
\* a record whose expiresAt equals the run's clock value
C5_Witness ==
  /\ last.op = "sweep"
  /\ \E g \in gone : g.by = "sweep"
  /\ \E f \in Records : f.expiresAt = last.start

\* C6: a download of an unexpired record without a password changes neither
\* the store nor the upload directory, so a repeated download answers the same
\* bytes: the bytes of the record's file.
C6_RepeatDownload ==
  /\ \A f \in Records :
       (~Expired(f, now) /\ f.passwordHash = Null) =>
         \A body \in Bodies :
           LET r   == DownloadResponse(DB, disk, now, f.id, body)
               db2 == DownloadStore(DB, now, f.id)
               d2  == DownloadDisk(DB, disk, now, f.id)
           IN /\ db2 = DB
              /\ d2 = disk
              /\ DownloadResponse(db2, d2, now, f.id, body) = r
              /\ f.path \in DOMAIN disk => (r.status = 200 /\ r.bytes = disk[f.path])
  /\ (last.op = "download" /\ last.status = 200) => Has(DB, last.id)

\* C6 witness: a passwordless record has just been downloaded, it is still
\* stored, and downloading it again answers the same bytes
C6_Witness ==
  /\ last.op = "download" /\ last.status = 200
  /\ Has(DB, last.id)
  /\ Get(DB, last.id).passwordHash = Null
  /\ DownloadResponse(DB, disk, now, last.id, NoBody) = last

\* C7: for every upload answered 200 that carried no password, a download of
\* the returned id at any time up to expiresAt answers the uploaded bytes
\* under the upload's original filename.
C7_RoundTrip ==
  \A u \in issued :
    (u.password = "" /\ now <= u.expiresAt) =>
      DownloadResponse(DB, disk, now, u.id, NoBody) =
        [op |-> "download", id |-> u.id, status |-> 200,
         name |-> u.originalName, bytes |-> u.bytes]

\* C8: every record in the store has expiresAt = uploadedAt + FIXED_TTL.
C8_ExpiryFromUploadedAt ==
  \A f \in Records : f.expiresAt = f.uploadedAt + FIXED_TTL

\* C9: once a record has been deleted, no record is ever stored under its id
\* again.
C9_NoIdReuse ==
  \A g \in gone : ~Has(DB, g.id)

\* C10: a successful GET /meta/:id carries exactly id, originalName, expiresAt
\* and passwordProtected, and passwordProtected is true exactly when the
\* record holds a digest, which is exactly when an unexpired download without
\* a password is refused with 401.
C10_MetaIsDisplaySafe ==
  /\ \A f \in Records :
       LET r == MetaResponse(DB, f.id) IN
       /\ r.status = 200
       /\ DOMAIN r.body = {"id", "originalName", "expiresAt", "passwordProtected"}
       /\ r.body.passwordProtected = (f.passwordHash # Null)
       /\ ~Expired(f, now) =>
            (r.body.passwordProtected <=>
               DownloadResponse(DB, disk, now, f.id, NoBody).status = 401)
  /\ (last.op = "meta" /\ last.status = 200) =>
       DOMAIN last.body = {"id", "originalName", "expiresAt", "passwordProtected"}

\* C10 witness: GET /meta has answered 200 for a protected record
C10_Witness ==
  /\ last.op = "meta" /\ last.status = 200
  /\ last.body.passwordProtected
  /\ Has(DB, last.id)
  /\ Get(DB, last.id).passwordHash = hashPwd("abc")

\* C11: a POST /upload without a file part answers 400 and carries no id, and
\* the step that answers it leaves the store, the upload directory, the
\* uploads in flight and the set of issued ids exactly as they were.
C11_NoFile400 ==
  [][(last' # last /\ last'.op = "upload" /\ last'.status = 400)
       => /\ DOMAIN last' = {"op", "status"}
          /\ UNCHANGED <<DB, disk, uploads, nreq, issued, gone>>]_vars

\* a 400 answered while the store holds a record and the directory a file
C11_Witness ==
  /\ last.op = "upload" /\ last.status = 400
  /\ Len(DB) = 1
  /\ DB[1].path \in DOMAIN disk
  /\ issued # {}

\* one step of the store as a single handler leaves it: a record leaves only
\* when it has expired or an upload has saved another record under its id,
\* and a record enters only as the record of the upload being handled
StoreStepOk ==
  /\ \A i \in 1..Len(DB) :
        (\A j \in 1..Len(DB') : DB'[j] # DB[i])
          => (Expired(DB[i], now') \/ Has(DB', DB[i].id))
  /\ \A j \in 1..Len(DB') :
        (\A i \in 1..Len(DB) : DB[i] # DB'[j])
          => \E k \in 1..Len(uploads) :
               /\ uploads[k].stage = "stored"
               /\ Len(uploads') = Len(uploads)
               /\ uploads'[k].stage = "saved"
               /\ DB'[j].id = uploads'[k].id
               /\ DB'[j].path = uploads[k].path

StoredPaths ==
  {JoinPath(UPLOAD_DIR, StoredName(t, r, rq.originalname)) :
     t \in 0..MaxTime, r \in Rands, rq \in UploadRequests}

\* C13: with the clock advancing and the sweeper firing, every file an upload
\* has written, once its record is saved with an expiry the clock passes, is
\* eventually removed from the upload directory, also when two uploads
\* receive the same id.
C13_EventuallyRemoved ==
  \A p \in StoredPaths : \A e \in 0..(MaxTime - 1) :
    (\E k \in 1..Len(uploads) :
        /\ uploads[k].stage = "saved"
        /\ uploads[k].path = p
        /\ uploads[k].expiresAt = e)
      ~> (p \notin DOMAIN disk)

\* C14: in every reachable state every record's path names a file that is in
\* the upload directory, and no two records of the store share a path.
C14_PathsExistAndExclusive ==
  \A i \in 1..Len(DB) :
    /\ DB[i].path \in DOMAIN disk
    /\ \A j \in 1..Len(DB) : j # i => DB[j].path # DB[i].path

\* C15: the download handler checks the expiry before the password. For an
\* expired protected record a download with a wrong or missing password
\* answers 410, not 401, and removes the record and its file; a download
\* answers 401 only for a record with now <= expiresAt.
C15_ExpiryBeforePassword ==
  \A id \in Ids : \A body \in Bodies :
    Has(DB, id) =>
      LET f == Get(DB, id)
          r == DownloadResponse(DB, disk, now, id, body)
      IN /\ (f.passwordHash # Null /\ ~PasswordOk(f, body) /\ Expired(f, now))
               => /\ r.status = 410
                  /\ ~Has(DownloadStore(DB, now, id), id)
                  /\ f.path \notin DOMAIN DownloadDisk(DB, disk, now, id)
         /\ (r.status = 401) => now <= f.expiresAt

\* the only upload there was carried a password; a download of its id after
\* the expiry answered 410 and took the record and the file away
C15_Witness ==
  /\ last.op = "download" /\ last.status = 410
  /\ nreq = 1 /\ uploads = <<>>
  /\ \E u \in issued : u.id = last.id /\ u.password = "abc" /\ now > u.expiresAt
  /\ \E g \in gone : g.id = last.id /\ g.by = "download" /\ g.path \notin DOMAIN disk
  /\ ~Has(DB, last.id)

\* C16: the step in which the QR rendering fails after saveDB answers 500
\* without an id and rolls nothing back: the store, with the record the
\* handler saved, and the upload directory, with its file, are unchanged.
C16_NoRollback ==
  [][\A k \in 1..Len(uploads) :
        (/\ uploads[k].stage = "saved"
         /\ uploads' = RemoveAt(uploads, k)
         /\ last'.op = "upload" /\ last'.status = 500)
          => /\ DOMAIN last' = {"op", "status"}
             /\ UNCHANGED <<DB, disk, issued>>]_vars

\* the only upload there was has been answered 500, no id was issued, and
\* its record is in the store with its file on disk
C16_Witness ==
  /\ last.op = "upload" /\ last.status = 500
  /\ nreq = 1 /\ uploads = <<>> /\ issued = {}
  /\ Len(DB) = 1
  /\ DB[1].path \in DOMAIN disk
  /\ now <= DB[1].expiresAt
  /\ DownloadResponse(DB, disk, now, DB[1].id, [password |-> "abc"]).status = 200

\* C17: while files.json cannot be parsed, loadDB yields the empty store:
\* GET /meta/:id and POST /download/:id answer 404 for every id and every
\* body, GET /health answers 200 with stored 0, and the store an upload
\* handler saves holds the record of that upload and nothing else.
C17_CorruptStoreIsEmpty ==
  DB = Corrupt =>
    /\ loadDB(DB) = <<>>
    /\ \A id \in Ids :
         /\ MetaResponse(loadDB(DB), id).status = 404
         /\ \A body \in Bodies :
              DownloadResponse(loadDB(DB), disk, now, id, body).status = 404
         /\ \A k \in 1..Len(uploads) :
              uploads[k].stage = "stored" =>
                Put(loadDB(DB), id, NewRecord(uploads[k], id, now, now))
                  = <<NewRecord(uploads[k], id, now, now)>>
    /\ HealthResponse(loadDB(DB)).status = 200
    /\ HealthResponse(loadDB(DB)).stored = 0

\* two uploads were answered with different ids and nothing was ever removed
\* for expiry, yet the store holds one record and GET /meta answered 404 for
\* the unexpired other one
C17_Witness ==
  /\ nreq = 2 /\ uploads = <<>> /\ gone = {}
  /\ Cardinality({u.id : u \in issued}) = 2
  /\ DB # Corrupt /\ Len(DB) = 1
  /\ last.op = "meta" /\ last.status = 404
  /\ \E u \in issued : u.id = last.id /\ now <= u.expiresAt

\* C18: in every reachable state every file in the upload directory is named
\* by the path of some record of the store, or belongs to an upload whose
\* handler has not run yet; also after two uploads were given the same id.
C18_NoOrphanedFiles ==
  \A p \in DOMAIN disk :
    \/ \E i \in 1..Len(DB) : DB[i].path = p
    \/ \E k \in 1..Len(uploads) : uploads[k].stage = "stored" /\ uploads[k].path = p

\* C19: up to and including its expiresAt, the record of every upload that
\* was answered with an id is in the store as issued, its file is in the
\* upload directory, and a download with the upload's password answers 200,
\* whatever uploads, downloads and sweeps have run in between.
C19_NoPrematureDeletion ==
  \A u \in issued :
    now <= u.expiresAt =>
      /\ \E i \in 1..Len(DB) :
            /\ DB[i].id = u.id
            /\ DB[i].expiresAt = u.expiresAt
            /\ DB[i].originalName = u.originalName
            /\ DB[i].path \in DOMAIN disk
      /\ DownloadResponse(DB, disk, now, u.id, [password |-> u.password]).status = 200
=============================================================================
